---- MODULE Spec2Model ----
(***************************************************************************)
(* Trial synthesis of brainpy_datasets' cognitive tasks AntiReach and      *)
(* Reaching1D (others.py) and of the layout helper interval_of (utils.py).*)
(*                                                                         *)
(* Numbers.  Floating-point values are fixed-point numbers with Scale      *)
(* units per 1.0.  Angles are kept on a grid of Circ points per turn so    *)
(* that k * 2*pi / num_choice is exact for every num_choice that divides   *)
(* Circ; Rad converts a grid angle to fixed-point radians.  Integer arrays *)
(* (dtype=int) hold plain integers; storing a float into one truncates.    *)
(***************************************************************************)
EXTENDS Integers, Sequences, FiniteSets, TLC

VARIABLES elem, total, ret, cfg, rng, out, last_item

vars == <<elem, total, ret, cfg, rng, out, last_item>>

(***************************************************************************)
(* Bounds of the model.                                                    *)
(***************************************************************************)
MaxLen == 3
MaxSegLen == 2
MaxDurUnits == 1
MaxChoice == 4
MaxSeed == 1
MaxCalls == 2

(***************************************************************************)
(* Arithmetic.                                                             *)
(***************************************************************************)
Scale == 10 ^ 3

\* cos at 0, 15, ..., 90 degrees, in fixed point
CosQuarter == <<1000, 966, 866, 707, 500, 259, 0>>

\* 2 * np.pi on the angle grid
Circ == 4 * (Len(CosQuarter) - 1)

\* np.pi in fixed-point radians
PiMilli == 3141

\* np.pi on the angle grid
PiGrid == Circ \div 2

\* the radians value of a grid angle, fixed point
Rad(a) == (a * 2 * PiMilli) \div Circ

\* np.cos of a grid angle (any integer, negative included)
np_cos(a) ==
  LET b == a % Circ
      m == IF b > PiGrid THEN Circ - b ELSE b
  IN  IF m <= Circ \div 4 THEN CosQuarter[m + 1]
      ELSE -CosQuarter[(PiGrid - m) + 1]

\* np.mod for a positive modulus
np_mod(a, m) == a % m

\* the value a dtype=int array stores when a float is assigned: truncation
\* towards zero
int_cast(v) == IF v >= 0 THEN v \div Scale ELSE -((-v) \div Scale)

\* int(a / b) for non-negative a and positive b
int_div(a, b) == a \div b

RECURSIVE SeqSum(_)
SeqSum(s) == IF s = <<>> THEN 0 ELSE Head(s) + SeqSum(Tail(s))

(***************************************************************************)
(* Python dicts: insertion-ordered keys and a value per key.               *)
(***************************************************************************)
\* a dict literal with distinct keys, from its (key, value) pairs in order
dict_literal(pairs) ==
  [type |-> "dict",
   keys |-> [i \in 1..Len(pairs) |-> pairs[i][1]],
   vals |-> [k \in {pairs[i][1] : i \in 1..Len(pairs)} |->
               (CHOOSE p \in {pairs[i] : i \in 1..Len(pairs)} : p[1] = k)[2]]]

\* tuple(d.items())
dict_items(d) == [i \in 1..Len(d.keys) |-> <<d.keys[i], d.vals[d.keys[i]]>>]

\* sum(d.values())
dict_values_sum(d) == SeqSum([i \in 1..Len(d.keys) |-> d.vals[d.keys[i]]])

\* a sequence argument (tuple or list of pairs)
seq_layout(pairs) == [type |-> "seq", items |-> pairs]

(***************************************************************************)
(* utils.interval_of                                                       *)
(***************************************************************************)
\* interval_loop with the offset never advanced
RECURSIVE interval_loop_no_offset(_, _, _, _)
interval_loop_no_offset(e, t, i, s) ==
  IF i > Len(t)
    THEN [raised |-> TRUE, error |-> "ValueError: Not found",
          start |-> 0, stop |-> 0, walked |-> Len(t)]
    ELSE IF t[i][1] = e
      THEN [raised |-> FALSE, error |-> "",
            start |-> s, stop |-> s + t[i][2], walked |-> i]
      ELSE interval_loop_no_offset(e, t, i + 1, s)

\* interval_loop with the loop's else branch returning an empty slice
RECURSIVE interval_loop_empty_slice(_, _, _, _)
interval_loop_empty_slice(e, t, i, s) ==
  IF i > Len(t)
    THEN [raised |-> FALSE, error |-> "",
          start |-> s, stop |-> s, walked |-> Len(t)]
    ELSE IF t[i][1] = e
      THEN [raised |-> FALSE, error |-> "",
            start |-> s, stop |-> s + t[i][2], walked |-> i]
      ELSE interval_loop_empty_slice(e, t, i + 1, s + t[i][2])

\* The for loop of interval_of from entry i on, with offset s accumulated so
\* far.  walked counts the entries the loop has looked at.
RECURSIVE interval_loop(_, _, _, _)
interval_loop(e, t, i, s) ==
  IF i > Len(t)
    THEN [raised |-> TRUE, error |-> "ValueError: Not found",
          start |-> 0, stop |-> 0, walked |-> Len(t)]
    ELSE IF t[i][1] = e
      THEN [raised |-> FALSE, error |-> "",
            start |-> s, stop |-> s + t[i][2], walked |-> i]
      ELSE interval_loop(e, t, i + 1, s + t[i][2])

interval_of(e, tot) ==
  LET t == IF tot.type = "dict" THEN dict_items(tot) ELSE tot.items
  IN  interval_loop(e, t, 1, 0)

\* index i0 (0-based) is selected by slice sl
InSlice(sl, i0) == sl.start <= i0 /\ i0 < sl.stop

(***************************************************************************)
(* numpy arrays: a 1-d array is a sequence, a 2-d array a sequence of rows.*)
(***************************************************************************)
np_zeros1(n) == [i \in 1..n |-> 0]

np_zeros2(n, m) == [i \in 1..n |-> [j \in 1..m |-> 0]]

\* np.arange(start, stop, step) for step > 0
np_arange(start, stop, step) ==
  [k \in 1..(((stop - start) + step - 1) \div step) |-> start + (k - 1) * step]

\* np.linspace(0, stop, num)[:-1]
np_linspace_open(stop, num) ==
  [k \in 1..(num - 1) |-> ((k - 1) * stop) \div (num - 1)]

\* X[rows, cols] += v for a scalar v
add_scalar(X, rows, cols, v) ==
  [i \in 1..Len(X) |-> [j \in 1..Len(X[i]) |->
     IF InSlice(rows, i - 1) /\ InSlice(cols, j - 1)
       THEN X[i][j] + v ELSE X[i][j]]]

\* X[rows, cols] += vec for a vector as wide as cols, broadcast over rows
add_vector(X, rows, cols, vec) ==
  [i \in 1..Len(X) |-> [j \in 1..Len(X[i]) |->
     IF InSlice(rows, i - 1) /\ InSlice(cols, j - 1)
       THEN X[i][j] + vec[(j - 1) - cols.start + 1] ELSE X[i][j]]]

\* Y[sl] = v for an array of dtype int and a fixed-point value v
set_int(Y, sl, v) ==
  [i \in 1..Len(Y) |-> IF InSlice(sl, i - 1) THEN int_cast(v) ELSE Y[i]]

(***************************************************************************)
(* Collaborators that live outside others.py and utils.py.                 *)
(***************************************************************************)
\* utils.others.initialize of a constant duration
initialize(t) == t

\* the generator's next state
rng_next(s) == (5 * s + 7) % Circ

\* rng.choice(choices) drawn in state s
rng_choice(s, choices) == choices[(rng_next(s) % Len(choices)) + 1]

\* rng.uniform(0, 2 * np.pi) drawn in state s, on the angle grid
rng_uniform(s) == rng_next(s)

\* a user-supplied transform applied to a 2-d array
transform2(f, X) == [i \in 1..Len(X) |-> [j \in 1..Len(X[i]) |-> 2 * X[i][j]]]

\* a user-supplied transform applied to a 1-d array
transform1(f, Y) == [i \in 1..Len(Y) |-> 2 * Y[i]]

(***************************************************************************)
(* The tail both sample_a_trial methods share: the optional transforms.    *)
(* invoked lists the transforms that were called, in order.                *)
(***************************************************************************)
\* apply_transforms with a failing input_transform swallowed
apply_transforms_swallow(c, X, Y) ==
  LET X1 == IF c.input_transform = "double"
              THEN transform2(c.input_transform, X) ELSE X
      inv1 == IF c.input_transform = "none" THEN <<>>
              ELSE <<"input_transform">>
  IN  IF c.target_transform = "raise"
        THEN [status |-> "raised", error |-> "target_transform error",
              X |-> <<>>, Y |-> <<>>,
              invoked |-> Append(inv1, "target_transform")]
      ELSE IF c.target_transform = "none"
        THEN [status |-> "returned", error |-> "",
              X |-> X1, Y |-> Y, invoked |-> inv1]
      ELSE [status |-> "returned", error |-> "",
            X |-> X1, Y |-> transform1(c.target_transform, Y),
            invoked |-> Append(inv1, "target_transform")]

apply_transforms(c, X, Y) ==
  IF c.input_transform = "raise"
    THEN [status |-> "raised", error |-> "input_transform error",
          X |-> <<>>, Y |-> <<>>, invoked |-> <<"input_transform">>]
  ELSE
    LET X1 == IF c.input_transform = "none" THEN X
              ELSE transform2(c.input_transform, X)
        inv1 == IF c.input_transform = "none" THEN <<>>
                ELSE <<"input_transform">>
    IN  IF c.target_transform = "raise"
          THEN [status |-> "raised", error |-> "target_transform error",
                X |-> <<>>, Y |-> <<>>,
                invoked |-> Append(inv1, "target_transform")]
        ELSE IF c.target_transform = "none"
          THEN [status |-> "returned", error |-> "",
                X |-> X1, Y |-> Y, invoked |-> inv1]
        ELSE [status |-> "returned", error |-> "",
              X |-> X1, Y |-> transform1(c.target_transform, Y),
              invoked |-> Append(inv1, "target_transform")]

\* what a call of sample_a_trial leaves: the returned pair with its axis
\* metadata, or the raised error.  gt records the drawn ground_truth and
\* ncols the second dimension of X (a 2-d array with no rows still has one).
trial_result(t, ncols, ax0, ax1, gt) ==
  [status |-> t.status, error |-> t.error, invoked |-> t.invoked, gt |-> gt,
   X |-> t.X, Y |-> t.Y,
   ncols |-> IF t.status = "returned" THEN ncols ELSE 0,
   X_ax0 |-> IF t.status = "returned" THEN ax0 ELSE <<>>,
   X_ax1 |-> IF t.status = "returned" THEN ax1 ELSE <<>>,
   Y_ax0 |-> IF t.status = "returned" THEN ax0 ELSE <<>>]

(***************************************************************************)
(* AntiReach                                                               *)
(***************************************************************************)
\* __init__: self._features
AntiReach_features(c) == np_arange(0, Circ, Circ \div c.num_choice)

\* __init__: self._choices
AntiReach_choices(c) == [k \in 1..c.num_choice |-> k - 1]

\* __init__: self._feature_periods
AntiReach_feature_periods(c) ==
  dict_literal(<< <<"fixation", 1>>, <<"choice", c.num_choice>> >>)

\* sample_a_trial: _time_periods
AntiReach_time_periods(c) ==
  dict_literal(<< <<"fixation", int_div(initialize(c.t_fixation), c.dt)>>,
                  <<"stimulus", int_div(initialize(c.t_stimulus), c.dt)>>,
                  <<"delay", int_div(initialize(c.t_delay), c.dt)>>,
                  <<"decision", int_div(initialize(c.t_decision), c.dt)>> >>)

\* ground_truth made to depend on the argument item
AntiReach_ground_truth_by_item(c, s, item) ==
  rng_choice(s + item, AntiReach_choices(c))

\* sample_a_trial: ground_truth, drawn in generator state s; the method's
\* argument item is in scope and not used
AntiReach_ground_truth(c, s, item) == rng_choice(s, AntiReach_choices(c))

\* stim_theta with the anti branch lost
AntiReach_stim_theta_pro(c, gt) == AntiReach_features(c)[gt + 1]

\* sample_a_trial: stim_theta
AntiReach_stim_theta(c, gt) ==
  IF c.anti
    THEN np_mod(AntiReach_features(c)[gt + 1] + PiGrid, Circ)
    ELSE AntiReach_features(c)[gt + 1]

\* the fixation channel without the addition over the stimulus period
AntiReach_fixation_input_no_stimulus(X, tp, fp) ==
  LET ax0_fixation == interval_of("fixation", tp)
      ax0_delay    == interval_of("delay", tp)
      ax1_fixation == interval_of("fixation", fp)
      X1 == add_scalar(X, ax0_fixation, ax1_fixation, Scale)
  IN  add_scalar(X1, ax0_delay, ax1_fixation, Scale)

\* sample_a_trial: the three additions to the fixation channel
AntiReach_fixation_input(X, tp, fp) ==
  LET ax0_fixation == interval_of("fixation", tp)
      ax0_stimulus == interval_of("stimulus", tp)
      ax0_delay    == interval_of("delay", tp)
      ax1_fixation == interval_of("fixation", fp)
      X1 == add_scalar(X, ax0_fixation, ax1_fixation, Scale)
      X2 == add_scalar(X1, ax0_stimulus, ax1_fixation, Scale)
  IN  add_scalar(X2, ax0_delay, ax1_fixation, Scale)

\* sample_a_trial: the cosine-tuned stimulus on the choice channels
AntiReach_stimulus_input(X, c, tp, fp, stim_theta) ==
  LET ax0_stimulus == interval_of("stimulus", tp)
      ax1_choice   == interval_of("choice", fp)
      stim == [k \in 1..Len(AntiReach_features(c)) |->
                 np_cos(AntiReach_features(c)[k] - stim_theta)]
  IN  add_vector(X, ax0_stimulus, ax1_choice, stim)

\* the label without the offset that reserves 0
AntiReach_target_no_offset(Y, tp, gt) ==
  set_int(Y, interval_of("decision", tp), gt * Scale)

\* sample_a_trial: the label of the decision period
AntiReach_target(Y, tp, gt) ==
  set_int(Y, interval_of("decision", tp), (gt + 1) * Scale)

\* sample_a_trial: X and Y before the transforms
AntiReach_generate(c, gt) ==
  LET tp == AntiReach_time_periods(c)
      fp == AntiReach_feature_periods(c)
      n_total == dict_values_sum(tp)
      X0 == np_zeros2(n_total, c.num_choice + 1)
      Y0 == np_zeros1(n_total)
      X1 == AntiReach_fixation_input(X0, tp, fp)
  IN  [X |-> AntiReach_stimulus_input(X1, c, tp, fp,
                                      AntiReach_stim_theta(c, gt)),
       Y |-> AntiReach_target(Y0, tp, gt),
       ncols |-> c.num_choice + 1]

\* sample_a_trial: dim0
AntiReach_dim0(c) == dict_items(AntiReach_time_periods(c))

\* dim1 with the fixation channel left out
AntiReach_dim1_no_fixation(c) == << <<"stimulus", c.num_choice>> >>

\* sample_a_trial: dim1
AntiReach_dim1(c) == << <<"fixation", 1>>, <<"stimulus", c.num_choice>> >>

AntiReach_sample_a_trial(c, s, item) ==
  LET gt == AntiReach_ground_truth(c, s, item)
      g  == AntiReach_generate(c, gt)
  IN  trial_result(apply_transforms(c, g.X, g.Y), g.ncols,
                   AntiReach_dim0(c), AntiReach_dim1(c), gt)

(***************************************************************************)
(* Reaching1D                                                              *)
(***************************************************************************)
\* __init__: self._features
Reaching1D_features(c) == np_linspace_open(Circ, c.num_choice + 1)

\* __init__: self._feature_periods
Reaching1D_feature_periods(c) ==
  dict_literal(<< <<"target", c.num_choice>>, <<"self", c.num_choice>> >>)

\* __init__: self.input_features
Reaching1D_input_features(c) ==
  [i \in 1..c.num_choice |-> <<"target", i - 1>>]
    \o [i \in 1..c.num_choice |-> <<"self", i - 1>>]

\* sample_a_trial: _time_periods
Reaching1D_time_periods(c) ==
  dict_literal(<< <<"fixation", int_div(c.t_fixation, c.dt)>>,
                  <<"reach", int_div(c.t_reach, c.dt)>> >>)

\* sample_a_trial: ground_truth, a grid angle drawn in generator state s
Reaching1D_ground_truth(c, s, item) == rng_uniform(s)

\* the target written to the self block
Reaching1D_target_input_self(X, c, tp, fp, gt) ==
  LET ax0_reach == interval_of("reach", tp)
      ax1_self  == interval_of("self", fp)
      target == [k \in 1..Len(Reaching1D_features(c)) |->
                   np_cos(Reaching1D_features(c)[k] - gt)]
  IN  add_vector(X, ax0_reach, ax1_self, target)

\* sample_a_trial: the cosine-tuned target on the target channels
Reaching1D_target_input(X, c, tp, fp, gt) ==
  LET ax0_reach  == interval_of("reach", tp)
      ax1_target == interval_of("target", fp)
      target == [k \in 1..Len(Reaching1D_features(c)) |->
                   np_cos(Reaching1D_features(c)[k] - gt)]
  IN  add_vector(X, ax0_reach, ax1_target, target)

\* sample_a_trial: Y, an array of dtype int
Reaching1D_target(Y, tp, gt) ==
  LET ax0_fixation == interval_of("fixation", tp)
      ax0_reach    == interval_of("reach", tp)
      Y1 == set_int(Y, ax0_fixation, PiMilli)
  IN  set_int(Y1, ax0_reach, Rad(gt))

\* sample_a_trial: X and Y before the transforms
Reaching1D_generate(c, gt) ==
  LET tp == Reaching1D_time_periods(c)
      fp == Reaching1D_feature_periods(c)
      n_total == dict_values_sum(tp)
      X0 == np_zeros2(n_total, Len(Reaching1D_input_features(c)))
      Y0 == np_zeros1(n_total)
  IN  [X |-> Reaching1D_target_input(X0, c, tp, fp, gt),
       Y |-> Reaching1D_target(Y0, tp, gt),
       ncols |-> Len(Reaching1D_input_features(c))]

\* sample_a_trial: dim0
Reaching1D_dim0(c) == dict_items(Reaching1D_time_periods(c))

\* sample_a_trial: dim1
Reaching1D_dim1(c) == << <<"target", c.num_choice>>, <<"self", c.num_choice>> >>

Reaching1D_sample_a_trial(c, s, item) ==
  LET gt == Reaching1D_ground_truth(c, s, item)
      g  == Reaching1D_generate(c, gt)
  IN  trial_result(apply_transforms(c, g.X, g.Y), g.ncols,
                   Reaching1D_dim0(c), Reaching1D_dim1(c), gt)

sample_a_trial(c, s, item) ==
  IF c.task = "AntiReach" THEN AntiReach_sample_a_trial(c, s, item)
  ELSE Reaching1D_sample_a_trial(c, s, item)

(***************************************************************************)
(* Inputs.                                                                 *)
(***************************************************************************)
Dts == {100, 200}

Durations == {k * 500 : k \in 0..MaxDurUnits}

\* The choice counts whose feature angles lie on the angle grid.  On the
\* grid 2*pi / num_choice is exact and np.arange has num_choice entries; in
\* floating point ceil(2*pi / (2*pi / n)) is n + 1 for some n (61, 122, ...),
\* where self._features is one entry too long and the addition of stim to
\* the choice channels cannot broadcast.  Those n lie beyond MaxChoice.
NumChoices == {n \in 1..MaxChoice : Circ % n = 0}

Seeds == 0..MaxSeed

Items == {0, 1}

Transforms == {"none", "double", "raise"}

Runs == {"A", "B"}

AntiReachConfigs ==
  [task : {"AntiReach"}, dt : Dts, anti : BOOLEAN,
   t_fixation : Durations, t_stimulus : Durations, t_delay : Durations,
   t_decision : Durations, t_reach : {0}, num_choice : NumChoices,
   seed : Seeds, input_transform : Transforms, target_transform : Transforms]

Reaching1DConfigs ==
  [task : {"Reaching1D"}, dt : Dts, anti : {FALSE},
   t_fixation : Durations, t_stimulus : {0}, t_delay : {0},
   t_decision : {0}, t_reach : Durations, num_choice : NumChoices,
   seed : Seeds, input_transform : Transforms, target_transform : Transforms]

SegNames == {"fixation", "stimulus", "delay"}

ElemNames == SegNames \cup {"decision"}

PairSeqs == UNION {[1..n -> SegNames \X (0..MaxSegLen)] : n \in 0..MaxLen}

DistinctNames(ps) == \A i, j \in 1..Len(ps) : ps[i][1] = ps[j][1] => i = j

\* the layouts interval_of is called with: sequences of pairs, and dicts
Layouts ==
  {seq_layout(ps) : ps \in PairSeqs}
    \cup {dict_literal(ps) : ps \in {q \in PairSeqs : DistinctNames(q)}}

NoCall == [raised |-> FALSE, error |-> "", start |-> 0, stop |-> 0, walked |-> 0]

NoLayout == seq_layout(<<>>)

NoConfig == CHOOSE c \in Reaching1DConfigs : TRUE

(***************************************************************************)
(* The tasks: one task object per run, all built from the same arguments.  *)
(***************************************************************************)
Init ==
  /\ cfg \in AntiReachConfigs \cup Reaching1DConfigs
  /\ rng = [r \in Runs |-> cfg.seed]
  /\ out = [r \in Runs |-> <<>>]
  /\ last_item = [r \in Runs |-> 0]
  /\ elem = "" /\ total = NoLayout /\ ret = [done |-> FALSE, r |-> NoCall]

SampleAntiReach(r, item) ==
  /\ cfg.task = "AntiReach"
  /\ Len(out[r]) < MaxCalls
  /\ out' = [out EXCEPT ![r] = Append(@, AntiReach_sample_a_trial(cfg, rng[r], item))]
  /\ rng' = [rng EXCEPT ![r] = rng_next(@)]
  /\ last_item' = [last_item EXCEPT ![r] = item]
  /\ UNCHANGED <<cfg, elem, total, ret>>

SampleReaching1D(r, item) ==
  /\ cfg.task = "Reaching1D"
  /\ Len(out[r]) < MaxCalls
  /\ out' = [out EXCEPT ![r] = Append(@, Reaching1D_sample_a_trial(cfg, rng[r], item))]
  /\ rng' = [rng EXCEPT ![r] = rng_next(@)]
  /\ last_item' = [last_item EXCEPT ![r] = item]
  /\ UNCHANGED <<cfg, elem, total, ret>>

Next ==
  \E item \in Items :
    \/ SampleAntiReach("A", item)
    \/ SampleReaching1D("A", item)

Spec == Init /\ [][Next]_vars

(***************************************************************************)
(* Two runs from the same seed, without transforms, composed call by call: *)
(* the k-th call of run A and the k-th call of run B, each with an item of *)
(* its own.  Each run owns its generator.                                  *)
(***************************************************************************)
InitRuns ==
  /\ Init
  /\ cfg.input_transform = "none"
  /\ cfg.target_transform = "none"

ItemOf(r, ia, ib) == IF r = "A" THEN ia ELSE ib

SampleBothAntiReach(ia, ib) ==
  /\ cfg.task = "AntiReach"
  /\ Len(out["A"]) < MaxCalls
  /\ out' = [r \in Runs |->
               Append(out[r], AntiReach_sample_a_trial(cfg, rng[r], ItemOf(r, ia, ib)))]
  /\ rng' = [r \in Runs |-> rng_next(rng[r])]
  /\ last_item' = [r \in Runs |-> ItemOf(r, ia, ib)]
  /\ UNCHANGED <<cfg, elem, total, ret>>

SampleBothReaching1D(ia, ib) ==
  /\ cfg.task = "Reaching1D"
  /\ Len(out["A"]) < MaxCalls
  /\ out' = [r \in Runs |->
               Append(out[r], Reaching1D_sample_a_trial(cfg, rng[r], ItemOf(r, ia, ib)))]
  /\ rng' = [r \in Runs |-> rng_next(rng[r])]
  /\ last_item' = [r \in Runs |-> ItemOf(r, ia, ib)]
  /\ UNCHANGED <<cfg, elem, total, ret>>

NextRuns ==
  \E ia \in Items, ib \in Items :
    \/ SampleBothAntiReach(ia, ib)
    \/ SampleBothReaching1D(ia, ib)

SpecRuns == InitRuns /\ [][NextRuns]_vars

(***************************************************************************)
(* interval_of on its own.                                                 *)
(***************************************************************************)
InitInterval ==
  /\ elem \in ElemNames
  /\ total \in Layouts
  /\ ret = [done |-> FALSE, r |-> NoCall]
  /\ cfg = NoConfig
  /\ rng = [r \in Runs |-> 0]
  /\ out = [r \in Runs |-> <<>>]
  /\ last_item = [r \in Runs |-> 0]

CallIntervalOf ==
  /\ ~ret.done
  /\ ret' = [done |-> TRUE, r |-> interval_of(elem, total)]
  /\ UNCHANGED <<elem, total, cfg, rng, out, last_item>>

NextInterval == CallIntervalOf

SpecInterval == InitInterval /\ [][NextInterval]_vars

(***************************************************************************)
(* Properties.                                                             *)
(***************************************************************************)
\* the entries of a layout in order, read off the argument itself
Entries(tot) ==
  IF tot.type = "dict"
    THEN [i \in 1..Len(tot.keys) |-> <<tot.keys[i], tot.vals[tot.keys[i]]>>]
    ELSE tot.items

Occurs(e, t) == \E i \in 1..Len(t) : t[i][1] = e

FirstAt(e, t) ==
  CHOOSE i \in 1..Len(t) : t[i][1] = e /\ \A j \in 1..(i - 1) : t[j][1] # e

LenBefore(t, i) == SeqSum([j \in 1..(i - 1) |-> t[j][2]])

\* the calls run A has made, and what the k-th left
Calls == 1..Len(out["A"])

Trial(k) == out["A"][k]

NoTransforms ==
  cfg.input_transform = "none" /\ cfg.target_transform = "none"

\* the number of steps of a duration
Steps(t) == t \div cfg.dt

\* C1: for a name that occurs in the layout, interval_of returns
\* [s, s + len) with len the length at the first occurrence of the name and
\* s the sum of the lengths before it; a later entry of the same name is
\* never the one returned.
C1_FirstMatchRange ==
  (ret.done /\ Occurs(elem, Entries(total))) =>
    LET t == Entries(total)
        i == FirstAt(elem, t)
    IN  /\ ~ret.r.raised
        /\ ret.r.start = LenBefore(t, i)
        /\ ret.r.stop = LenBefore(t, i) + t[i][2]

\* a call on a sequence that holds the name twice, with different lengths,
\* the first time after an entry of positive length
C1_Witness ==
  /\ ret.done
  /\ total.type = "seq"
  /\ Occurs(elem, total.items)
  /\ \E i, j \in 1..Len(total.items) :
       /\ 1 < i /\ i < j
       /\ i = FirstAt(elem, total.items)
       /\ total.items[j][1] = elem
       /\ total.items[j][2] # total.items[i][2]
       /\ LenBefore(total.items, i) > 0
       /\ ret.r.start > 0

C10_Raises ==
  (ret.done /\ ~Occurs(elem, Entries(total))) =>
    /\ ret.r.raised
    /\ ret.r.error = "ValueError: Not found"
    /\ ret.r.walked = Len(Entries(total))

\* C10: for a name that does not occur in the layout (the empty layout
\* included), interval_of raises 'Not found' after walking every entry and
\* returns no range; the call never changes the layout.
C10_NotFound == [](C10_Raises) /\ [][total' = total]_vars

\* a failed call on a layout of two entries or more
C10_Witness ==
  /\ ret.done
  /\ ret.r.raised
  /\ Len(Entries(total)) >= 2
  /\ ret.r.walked = Len(Entries(total))

\* a failed call on the empty layout
C10_WitnessEmpty == ret.done /\ ret.r.raised /\ Entries(total) = <<>>

\* the configuration of the AntiReach example
C2_Config ==
  /\ cfg.task = "AntiReach" /\ cfg.dt = 100 /\ cfg.anti
  /\ cfg.t_fixation = 500 /\ cfg.t_stimulus = 500
  /\ cfg.t_delay = 0 /\ cfg.t_decision = 500
  /\ cfg.num_choice = 4 /\ NoTransforms

C2_Shape(k) ==
  /\ Trial(k).status = "returned"
  /\ Len(Trial(k).X) = 15
  /\ Trial(k).ncols = 5
  /\ \A t \in 1..15 : Len(Trial(k).X[t]) = 5

\* C2 as stated: in the example the fixation channel is 1 at every step of
\* [0, 15).
C2_FixationAllSteps ==
  \A k \in Calls : C2_Config =>
    /\ C2_Shape(k)
    /\ \A t \in 1..15 : Trial(k).X[t][1] = Scale

\* C2 amended: in the example X has 15 steps and 5 channels, the fixation
\* channel is 1 at every step of [0, 10) (fixation, stimulus and the empty
\* delay) and 0 at every step of the decision period [10, 15).
C2_FixationUntilDecision ==
  \A k \in Calls : C2_Config =>
    /\ C2_Shape(k)
    /\ \A t \in 1..10 : Trial(k).X[t][1] = Scale
    /\ \A t \in 11..15 : Trial(k).X[t][1] = 0

C2_Witness == C2_Config /\ Len(out["A"]) >= 1 /\ Trial(1).status = "returned"

\* the configuration of the Reaching1D example
C3_Config ==
  /\ cfg.task = "Reaching1D" /\ cfg.dt = 100
  /\ cfg.t_fixation = 500 /\ cfg.t_reach = 500
  /\ cfg.num_choice = 2 /\ NoTransforms

\* C3: in the example every trial has 10 steps, Y is pi at every step of
\* the fixation period [0, 5) and the drawn angle ground_truth, neither
\* rounded nor truncated, at every step of the reach period [5, 10).
C3_TargetIsAngle ==
  \A k \in Calls : C3_Config =>
    /\ Trial(k).status = "returned"
    /\ Len(Trial(k).Y) = 10
    /\ \A t \in 1..5 : Trial(k).Y[t] * Scale = PiMilli
    /\ \A t \in 6..10 : Trial(k).Y[t] * Scale = Rad(Trial(k).gt)

\* what the example's trials do hold: the truncated values
C3_TargetIsTruncated ==
  \A k \in Calls : C3_Config =>
    /\ Trial(k).status = "returned"
    /\ Len(Trial(k).Y) = 10
    /\ \A t \in 1..5 : Trial(k).Y[t] = 3
    /\ \A t \in 6..10 : Trial(k).Y[t] = Rad(Trial(k).gt) \div Scale

\* the first step of the decision period, 0-based
DecisionStart ==
  Steps(cfg.t_fixation) + Steps(cfg.t_stimulus) + Steps(cfg.t_delay)

\* C4: in an AntiReach trial made without a target transform, Y is 0 at
\* every step outside the decision period and ground_truth + 1 at every step
\* of it, ground_truth being the one value drawn from 0..num_choice-1; so
\* every label is in 0..num_choice and no label of the decision period is 0.
C4_Labels ==
  \A k \in Calls :
    (cfg.task = "AntiReach" /\ cfg.target_transform = "none"
       /\ Trial(k).status = "returned") =>
      /\ Trial(k).gt \in 0..(cfg.num_choice - 1)
      /\ Len(Trial(k).Y) = DecisionStart + Steps(cfg.t_decision)
      /\ \A t \in 1..Len(Trial(k).Y) :
           /\ Trial(k).Y[t] \in 0..cfg.num_choice
           /\ (t - 1 < DecisionStart) => Trial(k).Y[t] = 0
           /\ (t - 1 >= DecisionStart) =>
                (Trial(k).Y[t] = Trial(k).gt + 1 /\ Trial(k).Y[t] # 0)

\* a trial with steps before the decision period and in it, whose drawn
\* ground_truth is 0
C4_Witness ==
  /\ cfg.task = "AntiReach" /\ cfg.target_transform = "none"
  /\ Len(out["A"]) >= 1 /\ Trial(1).status = "returned"
  /\ DecisionStart > 0 /\ Steps(cfg.t_decision) > 0
  /\ cfg.num_choice > 1
  /\ Trial(1).gt = 0
  /\ Trial(1).Y[DecisionStart + 1] = 1

\* the steps of the stimulus period of an AntiReach trial, 1-based
StimulusRows ==
  {t \in 1..(Steps(cfg.t_fixation) + Steps(cfg.t_stimulus)) :
     t > Steps(cfg.t_fixation)}

\* the response of choice channel j (0-based) at step t of the k-th trial
Response(k, t, j) == Trial(k).X[t][j + 2]

C5_Case(k) ==
  /\ cfg.task = "AntiReach"
  /\ cfg.input_transform = "none"
  /\ Trial(k).status = "returned"

\* C5 as stated: for every num_choice and every drawn g, with anti=True the
\* response during the stimulus period is 1 at the index opposite g (the
\* index half of num_choice away from g) and not at g; with anti=False it
\* is 1 at g.
C5_PeakOpposite ==
  \A k \in Calls : C5_Case(k) =>
    LET n == cfg.num_choice
        g == Trial(k).gt
    IN  \A t \in StimulusRows :
          /\ cfg.anti =>
               /\ \E j \in 0..(n - 1) :
                    /\ (2 * j) % (2 * n) = (2 * g + n) % (2 * n)
                    /\ Response(k, t, j) = Scale
               /\ Response(k, t, g) # Scale
          /\ ~cfg.anti => Response(k, t, g) = Scale

\* C5 amended: in every returned trial, with anti=True and an even
\* num_choice the response during the stimulus period is 1 at index
\* (g + num_choice/2) mod num_choice and nowhere else, so not at g; with
\* anti=False (any num_choice) it is 1 at g and nowhere else.
C5_PeakOppositeEven ==
  \A k \in Calls : C5_Case(k) =>
    LET n == cfg.num_choice
        g == Trial(k).gt
        peak == IF cfg.anti THEN (g + n \div 2) % n ELSE g
    IN  (~cfg.anti \/ n % 2 = 0) =>
          \A t \in StimulusRows : \A j \in 0..(n - 1) :
            /\ j = peak => Response(k, t, j) = Scale
            /\ j # peak => Response(k, t, j) < Scale

\* an anti trial with four choices whose opposite index wraps around
C5_Witness ==
  /\ Len(out["A"]) >= 1 /\ C5_Case(1)
  /\ cfg.anti /\ cfg.num_choice = 4
  /\ StimulusRows # {}
  /\ Trial(1).gt = 3
  /\ \A t \in StimulusRows : Response(1, t, 1) = Scale

Generated(k) ==
  IF cfg.task = "AntiReach" THEN AntiReach_generate(cfg, Trial(k).gt)
  ELSE Reaching1D_generate(cfg, Trial(k).gt)

\* C7: an error raised by input_transform or target_transform reaches the
\* caller and nothing is returned, neither X nor Y; when input_transform
\* raises, target_transform is not invoked; without transforms the
\* generated X and Y are returned as they are.
C7_TransformErrors ==
  \A k \in Calls :
    /\ cfg.input_transform = "raise" =>
         /\ Trial(k).status = "raised"
         /\ Trial(k).error = "input_transform error"
         /\ Trial(k).X = <<>> /\ Trial(k).Y = <<>>
         /\ Trial(k).invoked = <<"input_transform">>
    /\ (cfg.input_transform # "raise" /\ cfg.target_transform = "raise") =>
         /\ Trial(k).status = "raised"
         /\ Trial(k).error = "target_transform error"
         /\ Trial(k).X = <<>> /\ Trial(k).Y = <<>>
    /\ NoTransforms =>
         /\ Trial(k).status = "returned"
         /\ Trial(k).invoked = <<>>
         /\ Trial(k).X = Generated(k).X
         /\ Trial(k).Y = Generated(k).Y

\* a call whose input_transform raised while a target_transform was set
C7_Witness ==
  /\ Len(out["A"]) >= 1
  /\ cfg.input_transform = "raise"
  /\ cfg.target_transform = "double"
  /\ Trial(1).status = "raised"
  /\ Generated(1).X # <<>>

AxisMatches(ax, n) ==
  /\ SeqSum([p \in 1..Len(ax) |-> ax[p][2]]) = n
  /\ \A p \in 1..Len(ax) :
       LET sl == interval_of(ax[p][1], seq_layout(ax))
       IN  ~sl.raised /\ 0 <= sl.start /\ sl.start <= sl.stop /\ sl.stop <= n
  /\ \A i0 \in 0..(n - 1) :
       Cardinality({p \in 1..Len(ax) :
                      InSlice(interval_of(ax[p][1], seq_layout(ax)), i0)}) = 1

\* C9: in every trial returned without transforms the axis metadata matches
\* the arrays: the ax0 lengths add up to the rows of X and the length of Y,
\* the ax1 lengths to the columns of X, X and Y carry the same ax0, and
\* interval_of on the metadata covers each axis exactly once, in bounds.
C9_MetadataMatches ==
  \A k \in Calls :
    (NoTransforms /\ Trial(k).status = "returned") =>
      /\ Trial(k).X_ax0 = Trial(k).Y_ax0
      /\ Len(Trial(k).X) = Len(Trial(k).Y)
      /\ AxisMatches(Trial(k).X_ax0, Len(Trial(k).X))
      /\ AxisMatches(Trial(k).X_ax1, Trial(k).ncols)
      /\ \A t \in 1..Len(Trial(k).X) : Len(Trial(k).X[t]) = Trial(k).ncols

\* an AntiReach trial whose four periods all have steps
C9_Witness ==
  /\ cfg.task = "AntiReach" /\ NoTransforms
  /\ Len(out["A"]) >= 1 /\ Trial(1).status = "returned"
  /\ \A p \in 1..Len(Trial(1).X_ax0) : Trial(1).X_ax0[p][2] > 0
  /\ Len(Trial(1).X_ax0) = 4
  /\ cfg.num_choice > 1

====
